---- MODULE Spec2Model ----
(***************************************************************************)
(* The user-management endpoints of user.controller.ts: the route table,   *)
(* the eight request handlers and the account store they act on.           *)
(*                                                                         *)
(* A request is handled in atomic steps separated by the handler's awaits: *)
(* Receive runs the synchronous part (route matching, the route's          *)
(* middleware, the handler up to its service call); each store operation   *)
(* of the service is one further step, and the step of the last store      *)
(* operation also runs the handler's continuation, which maps the service  *)
(* result to the HTTP response.                                            *)
(*                                                                         *)
(* UserService, the middleware and the store are not part of the           *)
(* controller's file; they are modelled as the design document describes   *)
(* them.  Spec has one connection send every kind of request, one after    *)
(* another; ConcSpec has NumProcs connections overlap the requests of      *)
(* registration and of the verification workflow.                          *)
(***************************************************************************)
EXTENDS Integers, Sequences, FiniteSets, TLC

VARIABLES
    users,     \* the account store: id -> User document
    nextId,    \* the number the store gives the next account
    tokens,    \* the ids login has issued a token for
    procs,     \* the requests in flight, one per connection
    audit      \* per account, what has happened to its verification code

vars == <<users, nextId, tokens, procs, audit>>

(***************************************************************************)
(* Bounds of the model.                                                    *)
(***************************************************************************)
NumProcs == 2
MaxUsers == 2

Procs == 1..NumProcs
IdStrings == {ToString(i) : i \in 1..MaxUsers}

Emails == {"a@x.com", "b@x.com"}
Malformed == "not-an-email"
Passwords == {"pw123", "pw456"}
RegisteredPassword == "pw123"
Codes == {"c1", "c2"}

\* JavaScript's undefined (a field a body does not carry) and the stored
\* value of a verification code that is not there.
Undefined == "undefined"
NoCode == "null"

Field(obj, f) == IF f \in DOMAIN obj THEN obj[f] ELSE Undefined

(***************************************************************************)
(* Bearer tokens: none, one whose signature does not verify, or one signed *)
(* by the token issuer for an account id.                                  *)
(***************************************************************************)
NoToken == [kind |-> "none", id |-> Undefined]
Forged(i) == [kind |-> "forged", id |-> i]
Signed(i) == [kind |-> "signed", id |-> i]

NoLocals == [token |-> [id |-> Undefined], set |-> FALSE]

(***************************************************************************)
(* The User document.                                                      *)
(***************************************************************************)
User(first, last, email, password) ==
    [firstName |-> first, lastName |-> last, email |-> email,
     password |-> password, isVerified |-> FALSE, verificationCode |-> NoCode]

Hash(password) == <<"hash", password>>

(***************************************************************************)
(* The route table, in registration order.                                 *)
(***************************************************************************)
\* Routes with the token check left off the DELETE route.
RoutesDeleteUnguarded ==
    << [method |-> "POST",   seg |-> "register", mw |-> "validate:create",
        handler |-> "create"],
       [method |-> "POST",   seg |-> "login", mw |-> "validate:login",
        handler |-> "login"],
       [method |-> "POST",   seg |-> "request-verification-code", mw |-> "jwt",
        handler |-> "requestVerification"],
       [method |-> "GET",    seg |-> "", mw |-> "jwt",
        handler |-> "getAllUsers"],
       [method |-> "GET",    seg |-> ":id", mw |-> "jwt",
        handler |-> "getUserById"],
       [method |-> "PUT",    seg |-> "verify-user", mw |-> "jwt",
        handler |-> "verifyUser"],
       [method |-> "PUT",    seg |-> ":id", mw |-> "jwt",
        handler |-> "updateUser"],
       [method |-> "DELETE", seg |-> ":id", mw |-> "none",
        handler |-> "deleteUser"] >>

Routes ==
    << [method |-> "POST",   seg |-> "register", mw |-> "validate:create",
        handler |-> "create"],
       [method |-> "POST",   seg |-> "login", mw |-> "validate:login",
        handler |-> "login"],
       [method |-> "POST",   seg |-> "request-verification-code", mw |-> "jwt",
        handler |-> "requestVerification"],
       [method |-> "GET",    seg |-> "", mw |-> "jwt",
        handler |-> "getAllUsers"],
       [method |-> "GET",    seg |-> ":id", mw |-> "jwt",
        handler |-> "getUserById"],
       [method |-> "PUT",    seg |-> "verify-user", mw |-> "jwt",
        handler |-> "verifyUser"],
       [method |-> "PUT",    seg |-> ":id", mw |-> "jwt",
        handler |-> "updateUser"],
       [method |-> "DELETE", seg |-> ":id", mw |-> "jwt",
        handler |-> "deleteUser"] >>

NoRoute == [method |-> "", seg |-> "", mw |-> "", handler |-> "none"]

\* A request is [method, seg, token, body]: seg is the path after /users
\* ("" for /users itself).
Matches(route, req) ==
    /\ route.method = req.method
    /\ IF route.seg = ":id" THEN req.seg # "" ELSE route.seg = req.seg

initRoutes(req) ==
    LET hits == {i \in DOMAIN Routes : Matches(Routes[i], req)}
    IN  IF hits = {} THEN NoRoute
        ELSE Routes[CHOOSE i \in hits : \A j \in hits : i <= j]

(***************************************************************************)
(* Middleware.  jwtTokenRequiringMiddleware lets a request through only    *)
(* with a token the issuer signed and leaves its payload in                *)
(* res.locals.token; validationMiddleware lets a body through only if it   *)
(* fits the schema.                                                        *)
(***************************************************************************)
jwtTokenRequiringMiddleware(req) ==
    IF req.token.kind = "signed"
    THEN [token |-> [id |-> req.token.id], set |-> TRUE]
    ELSE NoLocals

validationMiddleware(schema, body) ==
    LET need == IF schema = "create"
                THEN {"firstName", "lastName", "email", "password"}
                ELSE {"email", "password"}
    IN  /\ need \subseteq DOMAIN body
        /\ body.email \in Emails

(***************************************************************************)
(* Responses.  data is kept by its shape: "absent" (no data field),        *)
(* "null", "doc" (one account), "list", "object".                          *)
(***************************************************************************)
Response(status, message, token, data) ==
    [status |-> status, message |-> message, token |-> token, data |-> data]

NoResponse == Response(0, "", NoToken, "absent")
NoMatch == Response(404, "Not Found", NoToken, "absent")
Unauthorized == Response(401, "Unauthorized", NoToken, "absent")
Invalid == Response(400, "Validation failed", NoToken, "absent")
\* catchAsyncError: an error thrown by a handler becomes a generic 500.
catchAsyncError == Response(500, "Something went wrong", NoToken, "absent")

Shape(found) == IF found = <<>> THEN "null" ELSE "doc"

(***************************************************************************)
(* The handlers, each in two parts: the service call it makes (its code up *)
(* to the await) and the response it builds from the service result.       *)
(***************************************************************************)
NoCall == [op |-> "none", id |-> Undefined, arg |-> <<>>]
Call(op, id, arg) == [op |-> op, id |-> id, arg |-> arg]
Throws == [op |-> "throw", id |-> Undefined, arg |-> <<>>]

createCall(req, locals) == Call("CreateUser", Undefined, req.body)

\* create answering 201 whatever the service reports.
createResponseAlwaysCreated(sr) == Response(201, sr.message, NoToken, sr.data)

createResponse(sr) ==
    Response(IF sr.status THEN 201 ELSE 400, sr.message, NoToken, sr.data)

getAllUsersCall(req, locals) == Call("GetAllUsers", Undefined, <<>>)

getAllUsersResponse(data) == Response(200, "", NoToken, "list")

getUserByIdCall(req, locals) == Call("GetUser", req.seg, <<>>)

getUserByIdResponse(user) == Response(200, "", NoToken, Shape(user))

updateUserCall(req, locals) == Call("UpdateUser", req.seg, req.body)

updateUserResponse(user) ==
    IF user = <<>> THEN Response(404, "User not found", NoToken, "absent")
    ELSE Response(200, "", NoToken, Shape(user))

deleteUserCall(req, locals) == Call("DeleteUser", req.seg, <<>>)

deleteUserResponse(deleted) == Response(200, "", NoToken, Shape(deleted))

loginCall(req, locals) ==
    Call("login", Undefined,
         [email |-> Field(req.body, "email"),
          password |-> Field(req.body, "password")])

\* login without the early return of the failure branch.
loginResponseNoReturn(sr) == Response(200, sr.message, sr.token, "object")

loginResponse(sr) ==
    IF ~sr.status THEN Response(404, sr.message, NoToken, "absent")
    ELSE Response(200, sr.message, sr.token, "object")

\* requestVerification taking the account id from the body when it has one.
requestVerificationCallBodyId(req, locals) ==
    IF ~locals.set THEN Throws
    ELSE Call("requestVerificationCode",
              IF "id" \in DOMAIN req.body THEN req.body.id ELSE locals.token.id,
              <<>>)

requestVerificationCall(req, locals) ==
    IF ~locals.set THEN Throws
    ELSE Call("requestVerificationCode", locals.token.id, <<>>)

requestVerificationResponse(sr) ==
    Response(IF sr.status THEN 200 ELSE 500, sr.message, NoToken, "absent")

\* verifyUser taking the account id from the body when the body has one.
verifyUserCallBodyId(req, locals) ==
    IF ~locals.set THEN Throws
    ELSE Call("verifyUser",
              IF "id" \in DOMAIN req.body THEN req.body.id ELSE locals.token.id,
              [code |-> Field(req.body, "code")])

verifyUserCall(req, locals) ==
    IF ~locals.set THEN Throws
    ELSE Call("verifyUser", locals.token.id, [code |-> Field(req.body, "code")])

\* verifyUser with the two status codes the wrong way round.
verifyUserResponseSwapped(sr) ==
    Response(IF sr.verified THEN 500 ELSE 200, sr.message, NoToken, "absent")

\* verifyUser testing the service result itself instead of its verified flag.
verifyUserResponseTruthy(sr) == Response(200, sr.message, NoToken, "absent")

verifyUserResponse(sr) ==
    Response(IF sr.verified THEN 200 ELSE 500, sr.message, NoToken, "absent")

HandlerCall(handler, req, locals) ==
    CASE handler = "create" -> createCall(req, locals)
      [] handler = "login" -> loginCall(req, locals)
      [] handler = "requestVerification" -> requestVerificationCall(req, locals)
      [] handler = "getAllUsers" -> getAllUsersCall(req, locals)
      [] handler = "getUserById" -> getUserByIdCall(req, locals)
      [] handler = "verifyUser" -> verifyUserCall(req, locals)
      [] handler = "updateUser" -> updateUserCall(req, locals)
      [] handler = "deleteUser" -> deleteUserCall(req, locals)

(***************************************************************************)
(* The state of one request in flight.                                     *)
(***************************************************************************)
NoReq == [method |-> "", seg |-> "", token |-> NoToken, body |-> <<>>]

Proc(pc, req, handler, locals, call, local, resp) ==
    [pc |-> pc, req |-> req, handler |-> handler, locals |-> locals,
     call |-> call, local |-> local, resp |-> resp]

Idle == Proc("idle", NoReq, "none", NoLocals, NoCall, Undefined, NoResponse)

Respond(proc, local, resp) == [proc EXCEPT !.pc = "done", !.local = local, !.resp = resp]

(***************************************************************************)
(* The requests a client can send.  A client presents no token, a token    *)
(* that does not verify, or a token a login has issued.                    *)
(***************************************************************************)
Request(method, seg, token, body) ==
    [method |-> method, seg |-> seg, token |-> token, body |-> body]

RegisterBodies ==
    {[firstName |-> "A", lastName |-> "B", email |-> e,
      password |-> RegisteredPassword] : e \in Emails \cup {Malformed}}

LoginBodies == {[email |-> e, password |-> pw] : e \in Emails, pw \in Passwords}

RequestCodeBodies == {<<>>} \cup {[id |-> i] : i \in IdStrings}

\* A body may carry no code, an empty one, a JSON null, or a code, and an
\* id beside it.
VerifyBodies ==
    {<<>>} \cup {[code |-> c] : c \in Codes \cup {"", NoCode}}
           \cup {[code |-> "c1", id |-> i] : i \in IdStrings}

Patches ==
    {[email |-> e] : e \in Emails}
        \cup {[isVerified |-> TRUE], [verificationCode |-> "c1"]}

Presentable == {NoToken, Forged("1")} \cup {Signed(i) : i \in tokens}

Requests ==
    {Request("POST", "register", NoToken, b) : b \in RegisterBodies}
    \cup {Request("POST", "login", NoToken, b) : b \in LoginBodies}
    \cup {Request("POST", "request-verification-code", t, b) :
            t \in Presentable, b \in RequestCodeBodies}
    \cup {Request("GET", "", t, <<>>) : t \in Presentable}
    \cup {Request("GET", i, t, <<>>) : t \in Presentable, i \in IdStrings}
    \cup {Request("PUT", "verify-user", t, b) : t \in Presentable, b \in VerifyBodies}
    \cup {Request("PUT", i, t, b) : t \in Presentable, i \in IdStrings, b \in Patches}
    \cup {Request("DELETE", i, t, <<>>) : t \in Presentable, i \in IdStrings}
    \cup {Request("PATCH", "", NoToken, <<>>)}

\* The requests ConcSpec lets overlap: registrations, and the verification
\* workflow of the account that logs in.
ConcRequests ==
    {Request("POST", "register", NoToken,
             [firstName |-> "A", lastName |-> "B", email |-> e,
              password |-> RegisteredPassword]) : e \in Emails}
    \cup {Request("POST", "login", NoToken,
                  [email |-> "a@x.com", password |-> RegisteredPassword])}
    \cup {Request("POST", "request-verification-code", Signed(i), <<>>) :
            i \in tokens}
    \cup {Request("PUT", "verify-user", Signed(i), [code |-> c]) :
            i \in tokens, c \in Codes}

(***************************************************************************)
(* Init: an empty store, no token issued, no request in flight.            *)
(***************************************************************************)
Init ==
    /\ users = <<>>
    /\ nextId = 1
    /\ tokens = {}
    /\ procs = [p \in Procs |-> Idle]
    /\ audit = <<>>

InFlight(op) == {q \in Procs : procs[q].pc = "service" /\ procs[q].call.op = op}

(***************************************************************************)
(* Receive: the synchronous part of handling a request: the first route    *)
(* that matches, its middleware, and the handler up to its service call.   *)
(* A registration is taken only while the store has a number left for it   *)
(* (MaxUsers bounds the accounts ever created).                            *)
(***************************************************************************)
Receive(p, req) ==
    /\ procs[p].pc = "idle"
    /\ LET route == initRoutes(req)
           locals == IF route.mw = "jwt" THEN jwtTokenRequiringMiddleware(req)
                     ELSE NoLocals
           pass == CASE route.mw = "jwt" -> locals.set
                     [] route.mw = "validate:create" ->
                            validationMiddleware("create", req.body)
                     [] route.mw = "validate:login" ->
                            validationMiddleware("login", req.body)
                     [] OTHER -> TRUE
           start == Proc("service", req, route.handler, locals, NoCall,
                         Undefined, NoResponse)
       IN  /\ route.handler = "create" /\ pass =>
                nextId + Cardinality(InFlight("CreateUser")) <= MaxUsers
           /\ procs' = [procs EXCEPT ![p] =
                IF route.handler = "none" THEN Respond(start, Undefined, NoMatch)
                ELSE IF ~pass
                THEN Respond(start, Undefined,
                             IF route.mw = "jwt" THEN Unauthorized ELSE Invalid)
                ELSE LET call == HandlerCall(route.handler, req, locals)
                     IN  IF call = Throws
                         THEN Respond(start, Undefined, catchAsyncError)
                         ELSE [start EXCEPT !.call = call]]
    /\ UNCHANGED <<users, nextId, tokens, audit>>

(***************************************************************************)
(* UserService over the account store.  Each action is one store           *)
(* operation of a service method, followed by the handler's continuation.  *)
(*                                                                         *)
(* audit records, per account: overwritten, the different code that the    *)
(* stored code replaced (NoCode if none); consumed, the code a verifyUser  *)
(* call has used up since a code was last issued (NoCode if none); wins,   *)
(* the number of verifyUser calls that have reported verified since then;  *)
(* and verified, whether a verifyUser call has ever succeeded on it.       *)
(***************************************************************************)
Serving(p, op) == procs[p].pc = "service" /\ procs[p].call.op = op

Finish(p, local, resp) == procs' = [procs EXCEPT ![p] = Respond(procs[p], local, resp)]

ByEmail(email) == {i \in DOMAIN users : users[i].email = email}

Find(id) == IF id \in DOMAIN users THEN <<users[id]>> ELSE <<>>

NoAudit == [overwritten |-> NoCode, consumed |-> NoCode, wins |-> 0,
            verified |-> FALSE]

\* The store rejects a second account with an email already in use.
CreateUser(p) ==
    /\ Serving(p, "CreateUser")
    /\ LET body == procs[p].call.arg
           id == ToString(nextId)
       IN  IF ByEmail(body.email) # {}
           THEN /\ Finish(p, Undefined,
                     createResponse([status |-> FALSE,
                                     message |-> "User creation failed",
                                     data |-> "null"]))
                /\ UNCHANGED <<users, nextId, audit>>
           ELSE /\ users' = (id :> User(body.firstName, body.lastName,
                                         body.email, Hash(body.password)))
                                @@ users
                /\ audit' = (id :> NoAudit) @@ audit
                /\ nextId' = nextId + 1
                /\ Finish(p, Undefined,
                     createResponse([status |-> TRUE,
                                     message |-> "User created",
                                     data |-> "doc"]))
    /\ UNCHANGED tokens

LoginFailure == [status |-> FALSE, message |-> "Invalid email or password",
                 token |-> NoToken]

login(p) ==
    /\ Serving(p, "login")
    /\ LET arg == procs[p].call.arg
           hit == {i \in ByEmail(arg.email) : users[i].password = Hash(arg.password)}
       IN  IF hit = {}
           THEN /\ Finish(p, Undefined, loginResponse(LoginFailure))
                /\ UNCHANGED tokens
           ELSE LET id == CHOOSE i \in hit : TRUE
                IN  /\ tokens' = tokens \cup {id}
                    /\ Finish(p, Undefined,
                         loginResponse([status |-> TRUE,
                                        message |-> "Logged in",
                                        token |-> Signed(id)]))
    /\ UNCHANGED <<users, nextId, audit>>

\* A fresh code replaces whatever code the account stored.
requestVerificationCode(p) ==
    /\ Serving(p, "requestVerificationCode")
    /\ LET id == procs[p].call.id
       IN  IF id \notin DOMAIN users
           THEN /\ Finish(p, Undefined,
                     requestVerificationResponse(
                         [status |-> FALSE, message |-> "User not found"]))
                /\ UNCHANGED <<users, audit>>
           ELSE \E code \in Codes :
                /\ users' = [users EXCEPT ![id].verificationCode = code]
                /\ audit' = [audit EXCEPT
                     ![id].overwritten =
                         IF users[id].verificationCode # code
                         THEN users[id].verificationCode ELSE NoCode,
                     ![id].consumed = NoCode,
                     ![id].wins = 0]
                /\ Finish(p, code,
                     requestVerificationResponse(
                         [status |-> TRUE, message |-> "Verification code sent"]))
    /\ UNCHANGED <<nextId, tokens>>

\* The code matches if one is stored and the submitted value equals it.
CodeMatches(stored, submitted) == stored # NoCode /\ stored = submitted

\* verifyUser reads the account and compares; on a match it goes on to
\* save the account (a second store operation).
verifyUser(p) ==
    /\ Serving(p, "verifyUser")
    /\ LET id == procs[p].call.id
           found == Find(id)
       IN  IF found # <<>> /\ CodeMatches(found[1].verificationCode,
                                          procs[p].call.arg.code)
           THEN procs' = [procs EXCEPT ![p].pc = "save",
                                       ![p].local = found[1].verificationCode]
           ELSE Finish(p, IF found = <<>> THEN Undefined
                          ELSE found[1].verificationCode,
                       verifyUserResponse(
                           [verified |-> FALSE,
                            message |-> "Verification failed"]))
    /\ UNCHANGED <<users, nextId, tokens, audit>>

verifyUserSave(p) ==
    /\ procs[p].pc = "save"
    /\ LET id == procs[p].call.id
       IN  IF id \in DOMAIN users
           THEN /\ users' = [users EXCEPT ![id].isVerified = TRUE,
                                          ![id].verificationCode = NoCode]
                /\ audit' = [audit EXCEPT ![id].overwritten = NoCode,
                                          ![id].consumed = procs[p].local,
                                          ![id].wins = @ + 1,
                                          ![id].verified = TRUE]
                /\ Finish(p, procs[p].local,
                     verifyUserResponse(
                         [verified |-> TRUE, message |-> "User verified"]))
           ELSE /\ Finish(p, procs[p].local, catchAsyncError)
                /\ UNCHANGED <<users, audit>>
    /\ UNCHANGED <<nextId, tokens>>

GetAllUsers(p) ==
    /\ Serving(p, "GetAllUsers")
    /\ Finish(p, Undefined, getAllUsersResponse(users))
    /\ UNCHANGED <<users, nextId, tokens, audit>>

GetUser(p) ==
    /\ Serving(p, "GetUser")
    /\ Finish(p, Undefined, getUserByIdResponse(Find(procs[p].call.id)))
    /\ UNCHANGED <<users, nextId, tokens, audit>>

\* The fields a patch may set.
Mutable == {"firstName", "lastName", "email", "password"}

\* A patch applied with every field it names.
ApplyPatchAll(doc, patch) ==
    [f \in DOMAIN doc |-> IF f \in DOMAIN patch THEN patch[f] ELSE doc[f]]

ApplyPatch(doc, patch) ==
    [f \in DOMAIN doc |-> IF f \in DOMAIN patch \cap Mutable THEN patch[f] ELSE doc[f]]

UpdateUser(p) ==
    /\ Serving(p, "UpdateUser")
    /\ LET id == procs[p].call.id
           patch == procs[p].call.arg
       IN  IF id \notin DOMAIN users
           THEN /\ Finish(p, Undefined, updateUserResponse(<<>>))
                /\ UNCHANGED users
           ELSE IF "email" \in DOMAIN patch /\ ByEmail(patch.email) \ {id} # {}
           THEN /\ Finish(p, Undefined, catchAsyncError)
                /\ UNCHANGED users
           ELSE /\ users' = [users EXCEPT ![id] = ApplyPatch(users[id], patch)]
                /\ Finish(p, Undefined, updateUserResponse(<<users'[id]>>))
    /\ UNCHANGED <<nextId, tokens, audit>>

DeleteUser(p) ==
    /\ Serving(p, "DeleteUser")
    /\ LET id == procs[p].call.id
       IN  /\ users' = [i \in DOMAIN users \ {id} |-> users[i]]
           /\ audit' = [i \in DOMAIN audit \ {id} |-> audit[i]]
           /\ Finish(p, Undefined, deleteUserResponse(Find(id)))
    /\ UNCHANGED <<nextId, tokens>>

\* The response has been sent: the request is over.
Release(p) ==
    /\ procs[p].pc = "done"
    /\ procs' = [procs EXCEPT ![p] = Idle]
    /\ UNCHANGED <<users, nextId, tokens, audit>>

(***************************************************************************)
(* Spec: one connection sends every kind of request, one after another.    *)
(***************************************************************************)
Next ==
    \/ \E req \in Requests : Receive(1, req)
    \/ CreateUser(1)
    \/ login(1)
    \/ requestVerificationCode(1)
    \/ verifyUser(1)
    \/ verifyUserSave(1)
    \/ GetAllUsers(1)
    \/ GetUser(1)
    \/ UpdateUser(1)
    \/ DeleteUser(1)
    \/ Release(1)

Spec == Init /\ [][Next]_vars

(***************************************************************************)
(* ConcSpec: the connections handle registrations and the verification     *)
(* workflow concurrently, their store operations interleaved.              *)
(***************************************************************************)
NextConc ==
    \E p \in Procs :
        \/ \E req \in ConcRequests : Receive(p, req)
        \/ CreateUser(p)
        \/ login(p)
        \/ requestVerificationCode(p)
        \/ verifyUser(p)
        \/ verifyUserSave(p)
        \/ Release(p)

ConcSpec == Init /\ [][NextConc]_vars

(***************************************************************************)
(* Properties.  Invoked: the handler has made its service call and the     *)
(* service has not returned yet.  Done: the handler's response is out.     *)
(* TokenId: the account the request's token names.                         *)
(***************************************************************************)
Invoked(p) == procs[p].pc \in {"service", "save"}

Done(p, handler) == procs[p].pc = "done" /\ procs[p].handler = handler

Public(req) == req.method = "POST" /\ req.seg \in {"register", "login"}

TokenId(p) == procs[p].req.token.id

\* C1: a service operation of a route other than register and login runs
\* only for a request whose bearer token passed the check: the token is one
\* the issuer signed and handed out, and its payload is in res.locals.
C1_ServiceOnlyAfterTokenCheck ==
    \A p \in Procs :
        Invoked(p) /\ ~Public(procs[p].req) =>
            /\ procs[p].req.token.kind = "signed"
            /\ procs[p].req.token.id \in tokens
            /\ procs[p].locals.set
            /\ procs[p].locals.token.id = procs[p].req.token.id

C1_Witness ==
    \E p \in Procs :
        /\ Invoked(p)
        /\ procs[p].call.op = "DeleteUser"
        /\ procs[p].req.token.kind = "signed"

\* The id the handler passed is the token's, whatever the body holds.
C2_IdFromToken ==
    \A p \in Procs :
        Invoked(p) /\ procs[p].handler \in {"requestVerification", "verifyUser"} =>
            procs[p].call.id = TokenId(p)

\* The store operations of the two methods leave every other account alone.
C2_OnlyTokenAccount ==
    \A p \in Procs :
        requestVerificationCode(p) \/ verifyUserSave(p) =>
            \A i \in DOMAIN users \ {TokenId(p)} :
                i \in DOMAIN users' /\ users'[i] = users[i]

\* C2: requestVerification and verifyUser pass the service the id of the
\* verified token whatever the body holds, so two requests with the same
\* token act on the same account; and the store operations they lead to
\* change no account but the token's.
C2_IdentityOnlyFromToken == []C2_IdFromToken /\ [][C2_OnlyTokenAccount]_vars

C2_Witness ==
    \E p \in Procs :
        /\ Done(p, "verifyUser")
        /\ procs[p].resp.status = 200
        /\ "id" \in DOMAIN procs[p].req.body
        /\ procs[p].req.body.id # TokenId(p)
        /\ procs[p].req.body.id \in DOMAIN users
        /\ users[TokenId(p)].isVerified
        /\ ~users[procs[p].req.body.id].isVerified

\* The code a verifyUser request submitted, and the code an account stores.
Submitted(p) == procs[p].call.arg.code

Stored(id) == IF id \in DOMAIN users THEN users[id].verificationCode ELSE NoCode

\* The stored code submitted: the read goes on to the save, which verifies.
C3_MatchSucceeds(p) ==
    /\ verifyUser(p) /\ Stored(TokenId(p)) \in Codes
           /\ Submitted(p) = Stored(TokenId(p)) =>
         procs'[p].pc = "save"
    /\ verifyUserSave(p) /\ TokenId(p) \in DOMAIN users =>
         /\ procs'[p].pc = "done"
         /\ procs'[p].resp.status = 200
         /\ users'[TokenId(p)].isVerified
         /\ users'[TokenId(p)].verificationCode = NoCode

\* The used-up code submitted again, no code issued since: not verified.
C3_RepeatFails(p) ==
    verifyUser(p) /\ TokenId(p) \in DOMAIN audit
        /\ audit[TokenId(p)].consumed # NoCode
        /\ Submitted(p) = audit[TokenId(p)].consumed =>
      /\ procs'[p].pc = "done"
      /\ procs'[p].resp.status = 500

\* C3: verifyUser with the code the account stores goes on to save the
\* account, and the save reports verified (200), sets isVerified and clears
\* the code; a later verifyUser with the code that was used up, no new
\* code issued since, reports not verified (500).
C3_VerifyOnce ==
    [][\A p \in Procs : C3_MatchSucceeds(p) /\ C3_RepeatFails(p)]_vars

C3_Witness ==
    \E p \in Procs :
        /\ Done(p, "verifyUser")
        /\ procs[p].resp.status = 500
        /\ TokenId(p) \in DOMAIN audit
        /\ audit[TokenId(p)].consumed \in Codes
        /\ Submitted(p) = audit[TokenId(p)].consumed
        /\ users[TokenId(p)].isVerified

\* After the store operation the account stores the generated code alone.
C4_Overwrites(p) ==
    requestVerificationCode(p) /\ TokenId(p) \in DOMAIN users =>
        /\ procs'[p].resp.status = 200
        /\ procs'[p].local \in Codes
        /\ users'[TokenId(p)].verificationCode = procs'[p].local
        /\ users'[TokenId(p)].isVerified = users[TokenId(p)].isVerified

\* The overwritten code submitted: not verified, nothing changed.
C4_OldCodeFails(p) ==
    verifyUser(p) /\ TokenId(p) \in DOMAIN audit
        /\ audit[TokenId(p)].overwritten # NoCode
        /\ Submitted(p) = audit[TokenId(p)].overwritten =>
      /\ procs'[p].pc = "done"
      /\ procs'[p].resp.status = 500
      /\ users' = users

\* C4: requestVerificationCode leaves the account of the token storing
\* exactly the code it generated, whatever code was stored before; and a
\* verifyUser with the code that was overwritten reports not verified (500)
\* and changes no account.
C4_NewCodeReplacesOld ==
    [][\A p \in Procs : C4_Overwrites(p) /\ C4_OldCodeFails(p)]_vars

C4_Witness ==
    \E p \in Procs :
        /\ Done(p, "verifyUser")
        /\ procs[p].resp.status = 500
        /\ TokenId(p) \in DOMAIN audit
        /\ audit[TokenId(p)].overwritten \in Codes
        /\ Submitted(p) = audit[TokenId(p)].overwritten
        /\ users[TokenId(p)].verificationCode \in Codes \ {Submitted(p)}
        /\ ~users[TokenId(p)].isVerified

\* Nothing stored, or something else submitted: not verified, nothing changed.
C10_MismatchFails(p) ==
    verifyUser(p) /\ (Stored(TokenId(p)) = NoCode
                        \/ Submitted(p) # Stored(TokenId(p))) =>
      /\ procs'[p].pc = "done"
      /\ procs'[p].resp.status = 500
      /\ users' = users

\* The verified answer comes only from the save of a matching read.
C10_SuccessNeedsMatch(p) ==
    procs[p].handler = "verifyUser" /\ procs[p].pc # "done"
        /\ procs'[p].pc = "done" /\ procs'[p].resp.status = 200 =>
      /\ procs[p].pc = "save"
      /\ procs[p].local \in Codes
      /\ Submitted(p) = procs[p].local

\* A pending save holds the stored code it read, equal to the submitted one.
C10_SavedCodeWasRead ==
    \A p \in Procs :
        procs[p].pc = "save" =>
            procs[p].local \in Codes /\ Submitted(p) = procs[p].local

\* C10: a verifyUser whose submitted value is not a code the account
\* stores (no account, no code stored, an absent or empty or other value)
\* reports not verified (500) and changes no account; and a request gets
\* the verified answer (200) only from a save that follows a read of a
\* stored code equal to the submitted one.
C10_VerifiedOnlyOnStoredCode ==
    /\ []C10_SavedCodeWasRead
    /\ [][\A p \in Procs : C10_MismatchFails(p) /\ C10_SuccessNeedsMatch(p)]_vars

C10_Witness ==
    \E p \in Procs :
        /\ Done(p, "verifyUser")
        /\ procs[p].resp.status = 500
        /\ procs[p].req.body = <<>>
        /\ TokenId(p) \in DOMAIN users
        /\ users[TokenId(p)].verificationCode = NoCode
        /\ ~users[TokenId(p)].isVerified

\* No code issued has let two verifyUser calls report verified.
C5_OneWinPerCode == \A i \in DOMAIN audit : audit[i].wins <= 1

\* A save that reports verified still finds the code its read found.
C5_NoStaleSave ==
    \A p \in Procs :
        verifyUserSave(p) /\ procs'[p].resp.status = 200 =>
            Stored(TokenId(p)) = procs[p].local

\* C5: per issued code at most one verifyUser call reports verified, and
\* a save reports verified only if the account still stores the code the
\* call read.
C5_VerifyIsAtomic == []C5_OneWinPerCode /\ [][C5_NoStaleSave]_vars

\* No two accounts of the store have the same email.
NoDuplicateEmail ==
    \A i, j \in DOMAIN users : users[i].email = users[j].email => i = j

\* CreateUser for an email in use: 400, and the store unchanged.
C6_DuplicateRejected(p) ==
    CreateUser(p) /\ ByEmail(procs[p].req.body.email) # {} =>
        /\ procs'[p].resp.status = 400
        /\ users' = users

\* C6: no two stored accounts share an email; a CreateUser for an email
\* some account already has answers 400 and leaves the store as it was.
C6_NoDuplicateAccount ==
    []NoDuplicateEmail /\ [][\A p \in Procs : C6_DuplicateRejected(p)]_vars

C6_Witness ==
    \E p, q \in Procs :
        /\ Done(p, "create") /\ procs[p].resp.status = 201
        /\ Done(q, "create") /\ procs[q].resp.status = 400
        /\ procs[p].req.body.email = procs[q].req.body.email
        /\ Cardinality(ByEmail(procs[q].req.body.email)) = 1

\* The one response of a failed login.
LoginFailureResponse == Response(404, "Invalid email or password", NoToken, "absent")

\* C7: a login that fails, because no account has the email or because
\* the password is not the account's, gets one and the same response: 404,
\* the same message, no token.
C7_SameLoginFailure ==
    \A p \in Procs :
        Done(p, "login") /\ procs[p].call.op = "login" =>
            LET arg == procs[p].call.arg
                unknown == ByEmail(arg.email) = {}
                wrong == \E i \in ByEmail(arg.email) :
                            users[i].password # Hash(arg.password)
            IN  unknown \/ wrong => procs[p].resp = LoginFailureResponse

C7_Witness ==
    \E p \in Procs :
        /\ Done(p, "login")
        /\ procs[p].resp = LoginFailureResponse
        /\ ByEmail(procs[p].req.body.email) # {}
        /\ \E i \in DOMAIN users : users[i].email # procs[p].req.body.email

\* The store operation of UpdateUser keeps both verification fields.
C8_PatchKeepsVerification(p) ==
    UpdateUser(p) =>
        \A i \in DOMAIN users :
            /\ i \in DOMAIN users'
            /\ users'[i].isVerified = users[i].isVerified
            /\ users'[i].verificationCode = users[i].verificationCode

\* A verified account has had a verifyUser call succeed on it.
C8_VerifiedByVerifyUser ==
    \A i \in DOMAIN users : users[i].isVerified => audit[i].verified

C9_StatusOf(p) ==
    LET h == procs[p].handler
        r == procs[p].resp
        id == procs[p].call.id
    IN  CASE h = "create" ->
                 (r.status = 201 /\ r.data = "doc") \/ (r.status = 400 /\ r.data = "null")
          [] h = "login" ->
                 \/ r.status = 200 /\ r.token.kind = "signed"
                 \/ r.status = 404 /\ r.token = NoToken
          [] h \in {"requestVerification", "verifyUser"} -> r.status \in {200, 500}
          [] h = "getAllUsers" -> r.status = 200
          [] h = "getUserById" ->
                 r.status = IF id \in DOMAIN users THEN 200 ELSE 404
          [] h = "updateUser" ->
                 IF id \in DOMAIN users THEN r.status \in {200, 500} ELSE r.status = 404
          [] h = "deleteUser" ->
                 (r.status = 200 /\ r.data = "doc") \/ r.status = 404
          [] OTHER -> TRUE

\* C9: the status code of a response is fixed by the outcome: create 201 on
\* success and 400 on rejection; login 200 with a token and 404 without;
\* requestVerification and verifyUser 200 or 500; getUserById, updateUser
\* and deleteUser 404 when no account has the id; 200 otherwise.
C9_StatusMapping ==
    \A p \in Procs :
        procs[p].pc = "done" /\ procs[p].call.op # "none" => C9_StatusOf(p)

====
